---- MODULE Spec2Model ----
(***************************************************************************)
(* Model of libempathy/empathy-uoa-auth-handler.c: the UOA (Ubuntu Online  *)
(* Accounts) SASL authentication handoff.  A flow is one call of           *)
(* empathy_uoa_auth_handler_start together with the chain of asynchronous  *)
(* continuations it registers (identity_query_info_cb, session_process_cb, *)
(* auth_cb).  The main loop is single threaded, so every handler is one    *)
(* atomic action.                                                          *)
(***************************************************************************)
EXTENDS Integers, Sequences, FiniteSets, TLC

VARIABLES
  flows,          \* flows[f]: everything start call number f has done so far
  nextFlow,       \* number of start calls made so far
  lastSupports    \* the last call of empathy_uoa_auth_handler_supports

vars == <<flows, nextFlow, lastSupports>>

----------------------------------------------------------------------------
(* Bounds *)

MaxFlows == 2

FlowIds == 1..MaxFlows

----------------------------------------------------------------------------
(* The collaborators' values *)

NULL == "NULL"

EMPATHY_UOA_PROVIDER == "im.telepathy.Account.Storage.UOA"

EMPATHY_UOA_SERVICE_TYPE == "IM"

EMPATHY_SASL_MECHANISM_FACEBOOK == "FACEBOOK"

EMPATHY_SASL_MECHANISM_WLM == "WLM"

EMPATHY_SASL_MECHANISM_GOOGLE == "GOOGLE"

EMPATHY_SASL_MECHANISM_UNSUPPORTED == "UNSUPPORTED"

SIGNON_SESSION_DATA_UI_POLICY == "UiPolicy"

SIGNON_POLICY_REQUEST_PASSWORD == "REQUEST_PASSWORD"

\* The channels a caller may hand to the handler: one per negotiated mechanism.
Channels ==
  { [path |-> "chF", mech |-> EMPATHY_SASL_MECHANISM_FACEBOOK],
    [path |-> "chW", mech |-> EMPATHY_SASL_MECHANISM_WLM],
    [path |-> "chG", mech |-> EMPATHY_SASL_MECHANISM_GOOGLE],
    [path |-> "chU", mech |-> EMPATHY_SASL_MECHANISM_UNSUPPORTED] }

\* The TpAccounts a caller may hand to the handler.
TpAccounts ==
  { [provider |-> EMPATHY_UOA_PROVIDER, storage_id |-> 1],
    [provider |-> EMPATHY_UOA_PROVIDER, storage_id |-> 2],
    [provider |-> EMPATHY_UOA_PROVIDER, storage_id |-> 3],
    [provider |-> "im.telepathy.Account.Storage.Other", storage_id |-> 1],
    [provider |-> NULL, storage_id |-> 1] }

\* The auth data the credential store holds for an IM service.
AuthDataOf(id) ==
  [ method      |-> "oauth2",
    mechanism   |-> "user_agent",
    credentials |-> id,
    parameters  |-> IF id = 1 THEN [k \in {"ClientId"} |-> "cid1"]
                    ELSE [k \in {} |-> NULL] ]

\* The content of the credential-storage manager: storage id 1 is an account
\* with one IM service, 2 an account with a mail service only, 3 is unknown.
AgAccounts ==
  [ id \in {1, 2} |->
      IF id = 1 THEN << [type |-> "IM", auth_data |-> AuthDataOf(1)] >>
      ELSE << [type |-> "e-mail", auth_data |-> AuthDataOf(2)] >> ]

Usernames == {"alice", "bob"}

\* What the identity service may hand to session_process_cb on success.
NoSessionData == [k \in {} |-> NULL]

SessionDatas ==
  { [k \in {"AccessToken"} |-> "tok123"], NoSessionData }

----------------------------------------------------------------------------
(* Collaborator functions *)

Handles == {"account", "service", "auth_data", "identity", "session", "channel"}

CtxHandles == {"channel", "auth_data", "session", "identity"}

\* tp_asv_get_string: the string stored under key, NULL when there is none.
tp_asv_get_string(asv, key) ==
  IF key \in DOMAIN asv THEN asv[key] ELSE NULL

\* tp_asv_new / g_hash_table insert of a whole table: entries of extra win.
ag_auth_data_insert_parameters(auth_data, extra) ==
  [auth_data EXCEPT !.parameters =
     [k \in (DOMAIN @) \cup (DOMAIN extra) |->
        IF k \in DOMAIN extra THEN extra[k] ELSE @[k]]]

ag_auth_data_get_parameters(auth_data) == auth_data.parameters

ag_auth_data_get_mechanism(auth_data) == auth_data.mechanism

ag_auth_data_get_method(auth_data) == auth_data.method

\* ag_manager_get_account: the account stored under id, named by its id, or
\* the null pointer, written 0 (no account has the id 0).
ag_manager_get_account(id) ==
  IF id \in DOMAIN AgAccounts THEN id ELSE 0

\* ag_account_list_services_by_type: the (possibly empty) list of services.
ag_account_list_services_by_type(account, type) ==
  SelectSeq(AgAccounts[account], LAMBDA s : s.type = type)

\* empathy_sasl_channel_select_mechanism: the channel's negotiated mechanism.
empathy_sasl_channel_select_mechanism(channel) == channel.mech

\* tp_strdiff: TRUE when the two strings differ (NULL differs from any string).
tp_strdiff(a, b) == a # b

----------------------------------------------------------------------------
(* The record of one flow *)

NoCtx ==
  [channel |-> [path |-> NULL, mech |-> NULL], auth_data |-> NULL,
   session |-> NULL, identity |-> NULL, username |-> NULL]

NoAuthData ==
  [method |-> NULL, mechanism |-> NULL, credentials |-> 0,
   parameters |-> [k \in {} |-> NULL]]

Idle ==
  [ pc         |-> "Idle",
    channel    |-> [path |-> NULL, mech |-> NULL],
    ctxState   |-> "none",       \* "none", "live" or "freed"
    ctx        |-> NoCtx,        \* the AuthContext
    allocs     |-> 0,            \* g_slice_new0 (AuthContext)
    frees      |-> 0,            \* g_slice_free (AuthContext, ctx)
    auth_data  |-> NoAuthData,   \* the AgAuthData object of the service
    created    |-> {},           \* the handles that are not NULL
    acq        |-> [h \in Handles |-> 0],   \* references acquired
    rel        |-> [h \in Handles |-> 0],   \* references released
    bad        |-> {},           \* handles released while NULL or not owned
    calls      |-> << >>,        \* the external calls issued, in order
    retry      |-> "none" ]      \* the detached session-processing call

Call(op, args, cb) == [op |-> op, args |-> args, cb |-> cb]

Issue(r, op, args, cb) == [r EXCEPT !.calls = Append(@, Call(op, args, cb))]

\* g_object_new and the other constructors: a handle with one reference.
Acquire(r, h) ==
  [r EXCEPT !.created = @ \cup {h}, !.acq[h] = @ + 1]

\* g_object_ref / ag_auth_data_ref
g_object_ref(r, h) == [r EXCEPT !.acq[h] = @ + 1]

\* g_object_unref / ag_auth_data_unref: GLib reports a critical and returns
\* when handed NULL; a release of a reference nobody holds is recorded too.
g_object_unref(r, h) ==
  IF h \notin r.created \/ r.acq[h] = r.rel[h]
  THEN [r EXCEPT !.bad = @ \cup {h}]
  ELSE [r EXCEPT !.rel[h] = @ + 1]

tp_channel_close_async(r, channel) ==
  Issue(r, "close", <<channel.path>>, NULL)

auth_context_new(r, channel, auth_data, session, identity) ==
  LET r1 == g_object_ref(r, "channel")
      r2 == g_object_ref(r1, auth_data)
      r3 == g_object_ref(r2, session)
      r4 == g_object_ref(r3, identity)
  IN  [r4 EXCEPT !.ctxState = "live",
                 !.allocs = @ + 1,
                 !.ctx = [channel |-> channel, auth_data |-> auth_data,
                          session |-> session, identity |-> identity,
                          username |-> NULL]]

\* auth_context_free that forgets the session.
auth_context_free_KeepsSession(r) ==
  LET r1 == g_object_unref(r, "channel")
      r2 == g_object_unref(r1, r.ctx.auth_data)
      r4 == g_object_unref(r2, r.ctx.identity)
  IN  [r4 EXCEPT !.ctxState = "freed",
                 !.frees = @ + 1,
                 !.ctx.username = NULL]

auth_context_free(r) ==
  LET r1 == g_object_unref(r, "channel")
      r2 == g_object_unref(r1, r.ctx.auth_data)
      r3 == g_object_unref(r2, r.ctx.session)
      r4 == g_object_unref(r3, r.ctx.identity)
  IN  [r4 EXCEPT !.ctxState = "freed",
                 !.frees = @ + 1,
                 !.ctx.username = NULL]

\* auth_context_done that closes the channel and forgets the context.
auth_context_done_NoFree(r) ==
  tp_channel_close_async(r, r.ctx.channel)

auth_context_done(r) ==
  auth_context_free(tp_channel_close_async(r, r.ctx.channel))

----------------------------------------------------------------------------
(* The handler's operations *)

\* empathy_uoa_auth_handler_supports that looks at the mechanism only.
empathy_uoa_auth_handler_supports_AnyProvider(channel, account) ==
  LET mech == empathy_sasl_channel_select_mechanism(channel)
  IN  \/ mech = EMPATHY_SASL_MECHANISM_FACEBOOK
      \/ mech = EMPATHY_SASL_MECHANISM_WLM
      \/ mech = EMPATHY_SASL_MECHANISM_GOOGLE

empathy_uoa_auth_handler_supports(channel, account) ==
  LET provider == account.provider
  IN  IF tp_strdiff(provider, EMPATHY_UOA_PROVIDER)
      THEN FALSE
      ELSE LET mech == empathy_sasl_channel_select_mechanism(channel)
           IN  \/ mech = EMPATHY_SASL_MECHANISM_FACEBOOK
               \/ mech = EMPATHY_SASL_MECHANISM_WLM
               \/ mech = EMPATHY_SASL_MECHANISM_GOOGLE

\* The cleanup label of empathy_uoa_auth_handler_start.
start_cleanup(r) ==
  LET r1 == g_object_unref(r, "auth_data")
      r2 == g_object_unref(r1, "service")
      r3 == g_object_unref(r2, "identity")
  IN  g_object_unref(r3, "session")

\* start that closes the channel when no session was created but misses the
\* goto, and so goes on to the identity query.
start_session_FallsThrough(r, channel, l, session_ok) ==
  LET rS == g_object_unref(Acquire(r, "service"), "account")
      rD == [Acquire(rS, "auth_data") EXCEPT !.auth_data = l[1].auth_data]
      cred_id == rD.auth_data.credentials
      rI == Acquire(Issue(rD, "identityNew", <<cred_id>>, NULL), "identity")
      rC == Issue(rI, "createSession",
                  <<ag_auth_data_get_method(rD.auth_data)>>, NULL)
      rF == IF ~session_ok THEN tp_channel_close_async(rC, channel)
            ELSE Acquire(rC, "session")
      rX == auth_context_new(rF, channel, "auth_data", "session", "identity")
      rQ == Issue(rX, "queryInfo", <<"identity">>, "identity_query_info_cb")
  IN  start_cleanup([rQ EXCEPT !.pc = "QueryingIdentity"])

\* empathy_uoa_auth_handler_start from the lookup of the service on.
start_session(r, channel, l, session_ok) ==
  LET rS == g_object_unref(Acquire(r, "service"), "account")
      rD == [Acquire(rS, "auth_data") EXCEPT !.auth_data = l[1].auth_data]
      cred_id == rD.auth_data.credentials
      rI == Acquire(Issue(rD, "identityNew", <<cred_id>>, NULL), "identity")
      rC == Issue(rI, "createSession",
                  <<ag_auth_data_get_method(rD.auth_data)>>, NULL)
  IN  IF ~session_ok
      THEN start_cleanup(
             [tp_channel_close_async(rC, channel) EXCEPT !.pc = "Failed"])
      ELSE LET rX == auth_context_new(Acquire(rC, "session"), channel,
                                      "auth_data", "session", "identity")
               rQ == Issue(rX, "queryInfo", <<"identity">>,
                           "identity_query_info_cb")
           IN  start_cleanup([rQ EXCEPT !.pc = "QueryingIdentity"])

\* start without the g_return_if_fail on supports.
start_NoSupportsGuard(r, channel, tp_account, session_ok) ==
  LET r0 == [r EXCEPT !.channel = channel, !.created = {"channel"}]
      id == tp_account.storage_id
      account == ag_manager_get_account(id)
      rG == Issue(r0, "getAccount", <<id>>, NULL)
      rA == IF account # 0 THEN Acquire(rG, "account") ELSE rG
      l  == IF account # 0
            THEN ag_account_list_services_by_type(
                   account, EMPATHY_UOA_SERVICE_TYPE)
            ELSE << >>
  IN  IF l = << >>
      THEN [tp_channel_close_async(g_object_unref(rA, "account"), channel)
              EXCEPT !.pc = "Failed"]
      ELSE start_session(rA, channel, l, session_ok)

\* start that closes the channel of a call it rejects.
start_RejectCloses(r, channel, tp_account, session_ok) ==
  LET r0 == [r EXCEPT !.channel = channel, !.created = {"channel"}]
  IN  IF ~empathy_uoa_auth_handler_supports(channel, tp_account)
      THEN [tp_channel_close_async(r0, channel) EXCEPT !.pc = "Rejected"]
      ELSE
        LET id == tp_account.storage_id
            account == ag_manager_get_account(id)
            rG == Issue(r0, "getAccount", <<id>>, NULL)
            rA == IF account # 0 THEN Acquire(rG, "account") ELSE rG
            l  == IF account # 0
                  THEN ag_account_list_services_by_type(
                         account, EMPATHY_UOA_SERVICE_TYPE)
                  ELSE << >>
        IN  IF l = << >>
            THEN [tp_channel_close_async(g_object_unref(rA, "account"),
                                         channel)
                    EXCEPT !.pc = "Failed"]
            ELSE start_session(rA, channel, l, session_ok)

\* start that returns without closing the channel when it finds no service.
start_SilentReturn(r, channel, tp_account, session_ok) ==
  LET r0 == [r EXCEPT !.channel = channel, !.created = {"channel"}]
  IN  IF ~empathy_uoa_auth_handler_supports(channel, tp_account)
      THEN [r0 EXCEPT !.pc = "Rejected"]
      ELSE
        LET id == tp_account.storage_id
            account == ag_manager_get_account(id)
            rG == Issue(r0, "getAccount", <<id>>, NULL)
            rA == IF account # 0 THEN Acquire(rG, "account") ELSE rG
            l  == IF account # 0
                  THEN ag_account_list_services_by_type(
                         account, EMPATHY_UOA_SERVICE_TYPE)
                  ELSE << >>
        IN  IF l = << >>
            THEN [g_object_unref(rA, "account") EXCEPT !.pc = "Failed"]
            ELSE start_session(rA, channel, l, session_ok)

empathy_uoa_auth_handler_start(r, channel, tp_account, session_ok) ==
  LET r0 == [r EXCEPT !.channel = channel, !.created = {"channel"}]
  IN  IF ~empathy_uoa_auth_handler_supports(channel, tp_account)
      THEN [r0 EXCEPT !.pc = "Rejected"]
      ELSE
        LET id == tp_account.storage_id
            account == ag_manager_get_account(id)
            rG == Issue(r0, "getAccount", <<id>>, NULL)
            rA == IF account # 0 THEN Acquire(rG, "account") ELSE rG
            l  == IF account # 0
                  THEN ag_account_list_services_by_type(
                         account, EMPATHY_UOA_SERVICE_TYPE)
                  ELSE << >>
        IN  IF l = << >>
            THEN [tp_channel_close_async(g_object_unref(rA, "account"),
                                         channel)
                    EXCEPT !.pc = "Failed"]
            ELSE start_session(rA, channel, l, session_ok)

\* identity_query_info_cb that closes the channel as soon as it has the
\* username.
identity_query_info_cb_ClosesEarly(r, error, username) ==
  IF error
  THEN [auth_context_done(r) EXCEPT !.pc = "Failed"]
  ELSE LET r1 == tp_channel_close_async(
                   [r EXCEPT !.ctx.username = username], r.ctx.channel)
           r2 == Issue(r1, "process",
                       << ag_auth_data_get_parameters(r1.auth_data),
                          ag_auth_data_get_mechanism(r1.auth_data) >>,
                       "session_process_cb")
       IN  [r2 EXCEPT !.pc = "ProcessingSession"]

\* identity_query_info_cb that goes on to the session processing without
\* recording the username.
identity_query_info_cb_ForgetsUsername(r, error, username) ==
  IF error
  THEN [auth_context_done(r) EXCEPT !.pc = "Failed"]
  ELSE LET r2 == Issue(r, "process",
                       << ag_auth_data_get_parameters(r.auth_data),
                          ag_auth_data_get_mechanism(r.auth_data) >>,
                       "session_process_cb")
       IN  [r2 EXCEPT !.pc = "ProcessingSession"]

\* identity_query_info_cb whose error branch misses the return.
identity_query_info_cb_NoReturn(r, error, username) ==
  LET r0 == IF error THEN auth_context_done(r) ELSE r
      r1 == [r0 EXCEPT !.ctx.username = username]
      r2 == Issue(r1, "process",
                  << ag_auth_data_get_parameters(r1.auth_data),
                     ag_auth_data_get_mechanism(r1.auth_data) >>,
                  "session_process_cb")
  IN  [r2 EXCEPT !.pc = "ProcessingSession"]

identity_query_info_cb(r, error, username) ==
  IF error
  THEN [auth_context_done(r) EXCEPT !.pc = "Failed"]
  ELSE LET r1 == [r EXCEPT !.ctx.username = username]
           r2 == Issue(r1, "process",
                       << ag_auth_data_get_parameters(r1.auth_data),
                          ag_auth_data_get_mechanism(r1.auth_data) >>,
                       "session_process_cb")
       IN  [r2 EXCEPT !.pc = "ProcessingSession"]

\* session_process_cb that hands the client id to the GOOGLE mechanism.
session_process_cb_GoogleClientId(r, error, session_data) ==
  IF error
  THEN [auth_context_done(r) EXCEPT !.pc = "Failed"]
  ELSE
    LET access_token == tp_asv_get_string(session_data, "AccessToken")
        client_id == tp_asv_get_string(
                       ag_auth_data_get_parameters(r.auth_data), "ClientId")
        mech == empathy_sasl_channel_select_mechanism(r.ctx.channel)
    IN  CASE mech = EMPATHY_SASL_MECHANISM_FACEBOOK ->
               [Issue(r, "authFacebook", <<client_id, access_token>>,
                      "auth_cb")
                  EXCEPT !.pc = "AwaitingMechanismResult"]
          [] mech = EMPATHY_SASL_MECHANISM_WLM ->
               [Issue(r, "authWlm", <<access_token>>, "auth_cb")
                  EXCEPT !.pc = "AwaitingMechanismResult"]
          [] mech = EMPATHY_SASL_MECHANISM_GOOGLE ->
               [Issue(r, "authGoogle", <<client_id, access_token>>,
                      "auth_cb")
                  EXCEPT !.pc = "AwaitingMechanismResult"]
          [] OTHER -> [r EXCEPT !.pc = "AssertNotReached"]

\* session_process_cb whose error branch returns without finishing the
\* context.
session_process_cb_DropsError(r, error, session_data) ==
  IF error
  THEN [r EXCEPT !.pc = "Failed"]
  ELSE
    LET access_token == tp_asv_get_string(session_data, "AccessToken")
        client_id == tp_asv_get_string(
                       ag_auth_data_get_parameters(r.auth_data), "ClientId")
        mech == empathy_sasl_channel_select_mechanism(r.ctx.channel)
    IN  CASE mech = EMPATHY_SASL_MECHANISM_FACEBOOK ->
               [Issue(r, "authFacebook", <<client_id, access_token>>,
                      "auth_cb")
                  EXCEPT !.pc = "AwaitingMechanismResult"]
          [] mech = EMPATHY_SASL_MECHANISM_WLM ->
               [Issue(r, "authWlm", <<access_token>>, "auth_cb")
                  EXCEPT !.pc = "AwaitingMechanismResult"]
          [] mech = EMPATHY_SASL_MECHANISM_GOOGLE ->
               [Issue(r, "authGoogle", <<r.ctx.username, access_token>>,
                      "auth_cb")
                  EXCEPT !.pc = "AwaitingMechanismResult"]
          [] OTHER -> [r EXCEPT !.pc = "AssertNotReached"]

\* session_process_cb that asks for the password again when the processing
\* failed, as auth_cb does.
session_process_cb_RetriesOnError(r, error, session_data) ==
  IF error
  THEN LET extra_params ==
             [k \in {SIGNON_SESSION_DATA_UI_POLICY} |->
                SIGNON_POLICY_REQUEST_PASSWORD]
           r1 == [r EXCEPT !.auth_data =
                    ag_auth_data_insert_parameters(@, extra_params)]
           r2 == Issue(r1, "process",
                       << ag_auth_data_get_parameters(r1.auth_data),
                          ag_auth_data_get_mechanism(r1.auth_data) >>,
                       NULL)
       IN  [auth_context_done([r2 EXCEPT !.retry = "pending"])
              EXCEPT !.pc = "Failed"]
  ELSE
    LET access_token == tp_asv_get_string(session_data, "AccessToken")
        client_id == tp_asv_get_string(
                       ag_auth_data_get_parameters(r.auth_data), "ClientId")
        mech == empathy_sasl_channel_select_mechanism(r.ctx.channel)
    IN  CASE mech = EMPATHY_SASL_MECHANISM_FACEBOOK ->
               [Issue(r, "authFacebook", <<client_id, access_token>>,
                      "auth_cb")
                  EXCEPT !.pc = "AwaitingMechanismResult"]
          [] mech = EMPATHY_SASL_MECHANISM_WLM ->
               [Issue(r, "authWlm", <<access_token>>, "auth_cb")
                  EXCEPT !.pc = "AwaitingMechanismResult"]
          [] mech = EMPATHY_SASL_MECHANISM_GOOGLE ->
               [Issue(r, "authGoogle", <<r.ctx.username, access_token>>,
                      "auth_cb")
                  EXCEPT !.pc = "AwaitingMechanismResult"]
          [] OTHER -> [r EXCEPT !.pc = "AssertNotReached"]

session_process_cb(r, error, session_data) ==
  IF error
  THEN [auth_context_done(r) EXCEPT !.pc = "Failed"]
  ELSE
    LET access_token == tp_asv_get_string(session_data, "AccessToken")
        client_id == tp_asv_get_string(
                       ag_auth_data_get_parameters(r.auth_data), "ClientId")
        mech == empathy_sasl_channel_select_mechanism(r.ctx.channel)
    IN  CASE mech = EMPATHY_SASL_MECHANISM_FACEBOOK ->
               [Issue(r, "authFacebook", <<client_id, access_token>>,
                      "auth_cb")
                  EXCEPT !.pc = "AwaitingMechanismResult"]
          [] mech = EMPATHY_SASL_MECHANISM_WLM ->
               [Issue(r, "authWlm", <<access_token>>, "auth_cb")
                  EXCEPT !.pc = "AwaitingMechanismResult"]
          [] mech = EMPATHY_SASL_MECHANISM_GOOGLE ->
               [Issue(r, "authGoogle", <<r.ctx.username, access_token>>,
                      "auth_cb")
                  EXCEPT !.pc = "AwaitingMechanismResult"]
          [] OTHER -> [r EXCEPT !.pc = "AssertNotReached"]

\* auth_cb that finishes the context in the failure branch and again at
\* the end of the function.
auth_cb_DoneTwice(r, ok) ==
  IF ~ok
  THEN LET extra_params ==
             [k \in {SIGNON_SESSION_DATA_UI_POLICY} |->
                SIGNON_POLICY_REQUEST_PASSWORD]
           r1 == [r EXCEPT !.auth_data =
                    ag_auth_data_insert_parameters(@, extra_params)]
           r2 == Issue(r1, "process",
                       << ag_auth_data_get_parameters(r1.auth_data),
                          ag_auth_data_get_mechanism(r1.auth_data) >>,
                       NULL)
       IN  [auth_context_done(auth_context_done([r2 EXCEPT !.retry = "pending"]))
              EXCEPT !.pc = "Retrying"]
  ELSE [auth_context_done(r) EXCEPT !.pc = "Succeeded"]

\* auth_cb that hands the parameters it read before the insertion, and its
\* own continuation, to the second session processing.
auth_cb_StaleParameters(r, ok) ==
  IF ~ok
  THEN LET extra_params ==
             [k \in {SIGNON_SESSION_DATA_UI_POLICY} |->
                SIGNON_POLICY_REQUEST_PASSWORD]
           r1 == [r EXCEPT !.auth_data =
                    ag_auth_data_insert_parameters(@, extra_params)]
           r2 == Issue(r1, "process",
                       << ag_auth_data_get_parameters(r.auth_data),
                          ag_auth_data_get_mechanism(r.auth_data) >>,
                       NULL)
       IN  [auth_context_done([r2 EXCEPT !.retry = "pending"])
              EXCEPT !.pc = "Retrying"]
  ELSE [auth_context_done(r) EXCEPT !.pc = "Succeeded"]

\* auth_cb that hands session_process_cb and the context to the second
\* session processing, and then frees the context all the same.
auth_cb_AwaitsRetry(r, ok) ==
  IF ~ok
  THEN LET extra_params ==
             [k \in {SIGNON_SESSION_DATA_UI_POLICY} |->
                SIGNON_POLICY_REQUEST_PASSWORD]
           r1 == [r EXCEPT !.auth_data =
                    ag_auth_data_insert_parameters(@, extra_params)]
           r2 == Issue(r1, "process",
                       << ag_auth_data_get_parameters(r1.auth_data),
                          ag_auth_data_get_mechanism(r1.auth_data) >>,
                       "session_process_cb")
       IN  [auth_context_done(r2) EXCEPT !.pc = "ProcessingSession"]
  ELSE [auth_context_done(r) EXCEPT !.pc = "Succeeded"]

\* auth_cb whose failure branch frees the context and leaves the channel
\* open for the retry.
auth_cb_FailureKeepsChannel(r, ok) ==
  IF ~ok
  THEN LET extra_params ==
             [k \in {SIGNON_SESSION_DATA_UI_POLICY} |->
                SIGNON_POLICY_REQUEST_PASSWORD]
           r1 == [r EXCEPT !.auth_data =
                    ag_auth_data_insert_parameters(@, extra_params)]
           r2 == Issue(r1, "process",
                       << ag_auth_data_get_parameters(r1.auth_data),
                          ag_auth_data_get_mechanism(r1.auth_data) >>,
                       NULL)
       IN  [auth_context_free([r2 EXCEPT !.retry = "pending"])
              EXCEPT !.pc = "Retrying"]
  ELSE [auth_context_done(r) EXCEPT !.pc = "Succeeded"]

\* auth_cb that asks the session twice for new credentials.
auth_cb_RetriesTwice(r, ok) ==
  IF ~ok
  THEN LET extra_params ==
             [k \in {SIGNON_SESSION_DATA_UI_POLICY} |->
                SIGNON_POLICY_REQUEST_PASSWORD]
           r1 == [r EXCEPT !.auth_data =
                    ag_auth_data_insert_parameters(@, extra_params)]
           r2 == Issue(r1, "process",
                       << ag_auth_data_get_parameters(r1.auth_data),
                          ag_auth_data_get_mechanism(r1.auth_data) >>,
                       NULL)
           r3 == Issue(r2, "process",
                       << ag_auth_data_get_parameters(r1.auth_data),
                          ag_auth_data_get_mechanism(r1.auth_data) >>,
                       NULL)
       IN  [auth_context_done([r3 EXCEPT !.retry = "pending"])
              EXCEPT !.pc = "Retrying"]
  ELSE [auth_context_done(r) EXCEPT !.pc = "Succeeded"]

auth_cb(r, ok) ==
  IF ~ok
  THEN LET extra_params ==
             [k \in {SIGNON_SESSION_DATA_UI_POLICY} |->
                SIGNON_POLICY_REQUEST_PASSWORD]
           r1 == [r EXCEPT !.auth_data =
                    ag_auth_data_insert_parameters(@, extra_params)]
           r2 == Issue(r1, "process",
                       << ag_auth_data_get_parameters(r1.auth_data),
                          ag_auth_data_get_mechanism(r1.auth_data) >>,
                       NULL)
       IN  [auth_context_done([r2 EXCEPT !.retry = "pending"])
              EXCEPT !.pc = "Retrying"]
  ELSE [auth_context_done(r) EXCEPT !.pc = "Succeeded"]

----------------------------------------------------------------------------
(* The state machine *)

NoCall ==
  [called |-> FALSE, channel |-> [path |-> NULL, mech |-> NULL],
   account |-> [provider |-> NULL, storage_id |-> 0], result |-> FALSE]

Init ==
  /\ flows = [f \in FlowIds |-> Idle]
  /\ nextFlow = 0
  /\ lastSupports = NoCall

\* A caller asks whether the handler can authenticate channel for account.
Supports(channel, account) ==
  /\ lastSupports' =
       [called |-> TRUE, channel |-> channel, account |-> account,
        result |-> empathy_uoa_auth_handler_supports(channel, account)]
  /\ UNCHANGED <<flows, nextFlow>>

\* A caller starts the authentication of channel for account.
Start(channel, tp_account, session_ok) ==
  /\ nextFlow < MaxFlows
  /\ nextFlow' = nextFlow + 1
  /\ flows' = [flows EXCEPT ![nextFlow + 1] =
       empathy_uoa_auth_handler_start(@, channel, tp_account, session_ok)]
  /\ UNCHANGED lastSupports

\* The completion of an asynchronous call, as the flow's history records it.
Completed(r, cb, args) == Issue(r, cb, args, NULL)

\* signon_identity_query_info completes: with an error and no info, or with
\* the info's username.
IdentityQueryInfoDone(f, error, username) ==
  /\ flows[f].pc = "QueryingIdentity"
  /\ flows' = [flows EXCEPT ![f] =
       identity_query_info_cb(
         Completed(@, "identity_query_info_cb:done", <<error, username>>),
         error, username)]
  /\ UNCHANGED <<nextFlow, lastSupports>>

\* signon_auth_session_process, issued by identity_query_info_cb, completes:
\* with an error and no data, or with the session data.
SessionProcessDone(f, error, session_data) ==
  /\ flows[f].pc = "ProcessingSession"
  /\ flows' = [flows EXCEPT ![f] =
       session_process_cb(
         Completed(@, "session_process_cb:done", <<error, session_data>>),
         error, session_data)]
  /\ UNCHANGED <<nextFlow, lastSupports>>

\* empathy_sasl_auth_*_async completes; empathy_sasl_auth_finish tells how.
AuthDone(f, ok) ==
  /\ flows[f].pc = "AwaitingMechanismResult"
  /\ flows' = [flows EXCEPT ![f] =
       auth_cb(Completed(@, "auth_cb:done", <<ok>>), ok)]
  /\ UNCHANGED <<nextFlow, lastSupports>>

\* signon_auth_session_process, issued by auth_cb with no callback, completes.
RetryDone(f) ==
  /\ flows[f].retry = "pending"
  /\ flows' = [flows EXCEPT ![f].retry = "done"]
  /\ UNCHANGED <<nextFlow, lastSupports>>

Next ==
  \/ \E c \in Channels, a \in TpAccounts, ok \in BOOLEAN : Start(c, a, ok)
  \/ \E f \in FlowIds : IdentityQueryInfoDone(f, TRUE, NULL)
  \/ \E f \in FlowIds, u \in Usernames : IdentityQueryInfoDone(f, FALSE, u)
  \/ \E f \in FlowIds : SessionProcessDone(f, TRUE, NoSessionData)
  \/ \E f \in FlowIds, d \in SessionDatas : SessionProcessDone(f, FALSE, d)
  \/ \E f \in FlowIds, ok \in BOOLEAN : AuthDone(f, ok)
  \/ \E f \in FlowIds : RetryDone(f)

Spec == Init /\ [][Next]_vars

\* The pending asynchronous call of flow f, which has a continuation,
\* completes with some outcome.
Completion(f) ==
  \/ IdentityQueryInfoDone(f, TRUE, NULL)
  \/ \E u \in Usernames : IdentityQueryInfoDone(f, FALSE, u)
  \/ SessionProcessDone(f, TRUE, NoSessionData)
  \/ \E d \in SessionDatas : SessionProcessDone(f, FALSE, d)
  \/ \E ok \in BOOLEAN : AuthDone(f, ok)

\* The behaviours over which termination is checked: flows on a GOOGLE and
\* on an UNSUPPORTED channel, for the account that has an IM service and for
\* the unknown one, with one outcome of each kind for every call.
LiveChannels ==
  { c \in Channels : c.mech \in { EMPATHY_SASL_MECHANISM_GOOGLE,
                                  EMPATHY_SASL_MECHANISM_UNSUPPORTED } }

LiveAccounts ==
  { a \in TpAccounts :
      a.provider = EMPATHY_UOA_PROVIDER /\ a.storage_id \in {1, 3} }

NextLive ==
  \/ \E c \in LiveChannels, a \in LiveAccounts, ok \in BOOLEAN :
       Start(c, a, ok)
  \/ \E f \in FlowIds : IdentityQueryInfoDone(f, TRUE, NULL)
  \/ \E f \in FlowIds : IdentityQueryInfoDone(f, FALSE, "alice")
  \/ \E f \in FlowIds : SessionProcessDone(f, TRUE, NoSessionData)
  \/ \E f \in FlowIds :
       SessionProcessDone(f, FALSE, [k \in {"AccessToken"} |-> "tok123"])
  \/ \E f \in FlowIds, ok \in BOOLEAN : AuthDone(f, ok)
  \/ \E f \in FlowIds : RetryDone(f)

\* The collaborators complete every call that has a continuation.  The
\* handler has no timer of its own: this is an assumption on the identity
\* service and on the channel.
SpecLive ==
  Init /\ [][NextLive]_vars /\ \A f \in FlowIds : WF_vars(Completion(f))

\* The handler's synchronous entry points alone: what a caller that gates
\* start by supports (or fails to) can do before any continuation runs.
NextSupports ==
  \/ \E c \in Channels, a \in TpAccounts : Supports(c, a)
  \/ \E c \in Channels, a \in TpAccounts, ok \in BOOLEAN : Start(c, a, ok)

SpecSupports == Init /\ [][NextSupports]_vars

----------------------------------------------------------------------------
(* Vocabulary of the properties *)

\* The entries of the flow's history made by an operation.
Entries(r, op) == SelectSeq(r.calls, LAMBDA c : c.op = op)

Count(r, op) == Len(Entries(r, op))

AuthOps == {"authFacebook", "authWlm", "authGoogle"}

AuthEntries(r) == SelectSeq(r.calls, LAMBDA c : c.op \in AuthOps)

\* The flow has ended: Succeeded, Retrying or Failed.
Terminal(r) == r.pc \in {"Succeeded", "Retrying", "Failed"}

\* start accepted the call, so that a flow began.
Begun(r) == r.pc \notin {"Idle", "Rejected"}

\* The flow is suspended in an asynchronous call that has a continuation.
Suspended(r) ==
  r.pc \in {"QueryingIdentity", "ProcessingSession", "AwaitingMechanismResult"}

\* The identity query, the first session processing, the mechanism auth
\* completed with an error or failure.
IdentityQueryFailed(r) ==
  \E i \in 1..Len(r.calls) :
    r.calls[i].op = "identity_query_info_cb:done" /\ r.calls[i].args[1]

SessionProcessFailed(r) ==
  \E i \in 1..Len(r.calls) :
    r.calls[i].op = "session_process_cb:done" /\ r.calls[i].args[1]

SessionProcessSucceeded(r) ==
  \E i \in 1..Len(r.calls) :
    r.calls[i].op = "session_process_cb:done" /\ ~r.calls[i].args[1]

MechanismAuthFailed(r) ==
  \E i \in 1..Len(r.calls) :
    r.calls[i].op = "auth_cb:done" /\ ~r.calls[i].args[1]

MechanismAuthSucceeded(r) ==
  \E i \in 1..Len(r.calls) :
    r.calls[i].op = "auth_cb:done" /\ r.calls[i].args[1]

\* start found the account and its IM service and created the session.
SessionCreated(r) == "session" \in r.created

\* start asked for a session and got none.
SessionCreationFailed(r) ==
  Count(r, "createSession") >= 1 /\ "session" \notin r.created

\* start asked the manager for the account and got none.
AccountNotFound(r) ==
  Count(r, "getAccount") >= 1 /\ "account" \notin r.created

\* start got the account, which has no service of the IM type.
NoImService(r) ==
  "account" \in r.created /\ "service" \notin r.created

\* The value stored in a table under key, if any.
ValueAt(table, key) == IF key \in DOMAIN table THEN table[key] ELSE NULL

\* The context holds no reference any more, and none was released wrongly.
ContextReleased(r) ==
  /\ r.ctxState = "freed"
  /\ r.frees = 1
  /\ \A h \in CtxHandles : r.acq[h] = r.rel[h] /\ h \notin r.bad

----------------------------------------------------------------------------
(* The properties *)

\* C1: in every flow begun by start the channel close operation is issued at
\* most once, and exactly once when the flow has reached a terminal state
\* (Succeeded, Retrying or Failed, start's own abort paths included).
C1_CloseAtMostOnceAndOnceAtEnd ==
  \A f \in FlowIds :
    Begun(flows[f]) =>
      /\ Count(flows[f], "close") <= 1
      /\ Terminal(flows[f]) => Count(flows[f], "close") = 1

C1_Witness ==
  \E f, g \in FlowIds :
    /\ flows[f].pc = "Retrying" /\ Count(flows[f], "close") = 1
    /\ flows[g].pc = "Failed" /\ flows[g].allocs = 0
    /\ Count(flows[g], "close") = 1

\* C2: an AuthContext allocated by start is released exactly once: never
\* twice, and when the flow has ended (identity-query error, session-
\* processing error, mechanism-auth success or failure) it has been released
\* together with its references to channel, auth-data, session and identity;
\* until then it is live and holds exactly those four references.
C2_ContextReleasedExactlyOnce ==
  \A f \in FlowIds :
    LET r == flows[f] IN
      /\ r.allocs <= 1
      /\ r.frees <= r.allocs
      /\ (r.allocs = 1 /\ Terminal(r)) => ContextReleased(r)
      /\ (r.allocs = 1 /\ ~Terminal(r)) =>
            /\ r.ctxState = "live" /\ r.frees = 0
            /\ \A h \in CtxHandles : r.acq[h] = r.rel[h] + 1

C2_Witness ==
  \E f, g \in FlowIds :
    /\ MechanismAuthSucceeded(flows[f]) /\ ContextReleased(flows[f])
    /\ SessionProcessFailed(flows[g]) /\ ContextReleased(flows[g])

\* C3: when mechanism auth completes with failure, that step issues exactly
\* one further session-processing call, whose parameters hold the injected
\* UI-policy REQUEST_PASSWORD entry and which has no continuation, and right
\* after it, in the same step and before the call's outcome is known, closes
\* the channel and releases the context.
C3_RetryThenCloseInOneStep ==
  [][ \A f \in FlowIds :
        LET r == flows[f]
            n == Len(r.calls)
            q == flows'[f]
        IN  (r.pc = "AwaitingMechanismResult" /\ MechanismAuthFailed(q)) =>
              /\ Len(q.calls) = n + 3
              /\ SubSeq(q.calls, 1, n) = r.calls
              /\ q.calls[n + 1].op = "auth_cb:done"
              /\ q.calls[n + 2].op = "process"
              /\ q.calls[n + 2].cb = NULL
              /\ SIGNON_SESSION_DATA_UI_POLICY \in DOMAIN q.calls[n + 2].args[1]
              /\ q.calls[n + 2].args[1][SIGNON_SESSION_DATA_UI_POLICY]
                   = SIGNON_POLICY_REQUEST_PASSWORD
              /\ q.calls[n + 3].op = "close"
              /\ Count(q, "process") = Count(r, "process") + 1
              /\ Count(q, "process") = 2
              /\ q.retry = "pending"
              /\ ContextReleased(q)
              /\ q.pc = "Retrying" ]_vars

C3_Witness ==
  \E f \in FlowIds :
    /\ MechanismAuthFailed(flows[f])
    /\ flows[f].retry = "pending"
    /\ Count(flows[f], "close") = 1
    /\ flows[f].ctxState = "freed"

\* C4: when the account resolves, has an IM service and the session is
\* created, start issues exactly one identity-query call and does not close
\* the channel, and the channel is not closed before the flow's final step:
\* a close is the last call of a flow that has ended.
C4_OneIdentityQueryNoEarlyClose ==
  \A f \in FlowIds :
    LET r == flows[f] IN
      SessionCreated(r) =>
        /\ Count(r, "queryInfo") = 1
        /\ r.pc = "QueryingIdentity" =>
             /\ Count(r, "close") = 0
             /\ r.calls[Len(r.calls)].op = "queryInfo"
        /\ Suspended(r) => Count(r, "close") = 0
        /\ Count(r, "close") >= 1 =>
             /\ Terminal(r)
             /\ r.calls[Len(r.calls)].op = "close"

C4_Witness ==
  \E f, g \in FlowIds :
    /\ flows[f].pc = "QueryingIdentity" /\ Count(flows[f], "queryInfo") = 1
    /\ flows[g].pc = "AwaitingMechanismResult" /\ Count(flows[g], "close") = 0

\* C5: when session processing completes successfully exactly one mechanism
\* auth call is issued, chosen by the channel's mechanism: FACEBOOK calls
\* authFacebook(ClientId of the auth-data parameters, AccessToken of the
\* session data), WLM calls authWlm(AccessToken), GOOGLE calls
\* authGoogle(username the identity query returned, AccessToken).
C5_MechanismDispatch ==
  \A f \in FlowIds :
    LET r == flows[f] IN
      SessionProcessSucceeded(r) =>
        LET a      == AuthEntries(r)
            data   == Entries(r, "session_process_cb:done")[1].args[2]
            token  == ValueAt(data, "AccessToken")
            user   == Entries(r, "identity_query_info_cb:done")[1].args[2]
            id     == Entries(r, "getAccount")[1].args[1]
            client == ValueAt(AgAccounts[id][1].auth_data.parameters,
                              "ClientId")
            mech   == r.channel.mech
        IN  /\ Len(a) = 1
            /\ a[1].cb = "auth_cb"
            /\ mech \in { EMPATHY_SASL_MECHANISM_FACEBOOK,
                          EMPATHY_SASL_MECHANISM_WLM,
                          EMPATHY_SASL_MECHANISM_GOOGLE }
            /\ mech = EMPATHY_SASL_MECHANISM_FACEBOOK =>
                 a[1].op = "authFacebook" /\ a[1].args = <<client, token>>
            /\ mech = EMPATHY_SASL_MECHANISM_WLM =>
                 a[1].op = "authWlm" /\ a[1].args = <<token>>
            /\ mech = EMPATHY_SASL_MECHANISM_GOOGLE =>
                 a[1].op = "authGoogle" /\ a[1].args = <<user, token>>

C5_Witness ==
  \E f, g \in FlowIds :
    /\ flows[f].channel.mech = EMPATHY_SASL_MECHANISM_GOOGLE
    /\ Len(AuthEntries(flows[f])) = 1
    /\ AuthEntries(flows[f])[1].op = "authGoogle"
    /\ AuthEntries(flows[f])[1].args = <<"alice", "tok123">>
    /\ flows[g].channel.mech = EMPATHY_SASL_MECHANISM_FACEBOOK
    /\ Len(AuthEntries(flows[g])) = 1
    /\ AuthEntries(flows[g])[1].op = "authFacebook"
    /\ AuthEntries(flows[g])[1].args = <<"cid1", "tok123">>

\* C6: supports(channel, account) is true exactly when the account's storage
\* provider is the expected provider and the channel's mechanism is FACEBOOK,
\* WLM or GOOGLE, and a call of supports leaves the flows as they are.
C6_SupportsIffProviderAndMechanism ==
  /\ [](lastSupports.called =>
          (lastSupports.result <=>
             /\ lastSupports.account.provider = EMPATHY_UOA_PROVIDER
             /\ lastSupports.channel.mech \in
                  { EMPATHY_SASL_MECHANISM_FACEBOOK,
                    EMPATHY_SASL_MECHANISM_WLM,
                    EMPATHY_SASL_MECHANISM_GOOGLE }))
  /\ [][lastSupports' # lastSupports => UNCHANGED <<flows, nextFlow>>]_vars

C6_Witness ==
  /\ lastSupports.called
  /\ lastSupports.result
  /\ lastSupports.channel.mech = EMPATHY_SASL_MECHANISM_WLM
  /\ nextFlow > 0

\* C7: when the identity query completes with an error the channel is closed,
\* the context is released, and the flow issues no session-processing call
\* and no mechanism-auth call, then or later.
C7_IdentityQueryErrorEndsFlow ==
  \A f \in FlowIds :
    LET r == flows[f] IN
      IdentityQueryFailed(r) =>
        /\ r.pc = "Failed"
        /\ Count(r, "close") = 1
        /\ ContextReleased(r)
        /\ Count(r, "process") = 0
        /\ Len(AuthEntries(r)) = 0

C7_Witness ==
  \E f \in FlowIds :
    /\ IdentityQueryFailed(flows[f])
    /\ Count(flows[f], "close") = 1
    /\ flows[f].ctxState = "freed"

\* C8: when session creation fails in start the channel is closed, no
\* AuthContext is allocated, no identity-query call is issued and session
\* creation is not tried again.
C8_SessionCreationFailureAborts ==
  \A f \in FlowIds :
    LET r == flows[f] IN
      SessionCreationFailed(r) =>
        /\ r.pc = "Failed"
        /\ Count(r, "close") = 1
        /\ r.allocs = 0 /\ r.ctxState = "none"
        /\ Count(r, "queryInfo") = 0
        /\ Count(r, "createSession") = 1

C8_Witness ==
  \E f \in FlowIds :
    /\ SessionCreationFailed(flows[f])
    /\ "identity" \in flows[f].created
    /\ Count(flows[f], "close") = 1

\* C9: when the manager has no such account, or the account has no service of
\* the IM type, start closes the channel and returns: no identity, session or
\* AuthContext is created and no identity-query call is issued.
C9_ResolutionFailureAborts ==
  \A f \in FlowIds :
    LET r == flows[f] IN
      (AccountNotFound(r) \/ NoImService(r)) =>
        /\ r.pc = "Failed"
        /\ Count(r, "close") = 1
        /\ r.calls[Len(r.calls)].op = "close"
        /\ r.created \cap {"service", "auth_data", "identity", "session"} = {}
        /\ Count(r, "identityNew") = 0
        /\ Count(r, "createSession") = 0
        /\ r.allocs = 0 /\ r.ctxState = "none"
        /\ Count(r, "queryInfo") = 0

C9_Witness ==
  \E f, g \in FlowIds :
    /\ AccountNotFound(flows[f]) /\ Count(flows[f], "close") = 1
    /\ NoImService(flows[g]) /\ Count(flows[g], "close") = 1

\* C10: when the first session-processing call completes with an error the
\* channel is closed and the context released, and the flow issues no
\* mechanism-auth call and no second session-processing call.
C10_SessionProcessErrorEndsFlow ==
  \A f \in FlowIds :
    LET r == flows[f] IN
      SessionProcessFailed(r) =>
        /\ r.pc = "Failed"
        /\ Count(r, "close") = 1
        /\ ContextReleased(r)
        /\ Len(AuthEntries(r)) = 0
        /\ Count(r, "process") = 1
        /\ r.retry = "none"

C10_Witness ==
  \E f \in FlowIds :
    /\ SessionProcessFailed(flows[f])
    /\ Count(flows[f], "close") = 1
    /\ flows[f].ctxState = "freed"

\* C11: the g_assert_not_reached branch of the mechanism switch is never
\* taken in a flow begun by start: the mechanism selected when session
\* processing completes is the one supports saw in start, one of FACEBOOK,
\* WLM and GOOGLE, and a successful session processing always dispatches.
C11_AssertionBranchUnreachable ==
  \A f \in FlowIds :
    LET r == flows[f] IN
      Begun(r) =>
        /\ r.pc # "AssertNotReached"
        /\ r.channel.mech \in { EMPATHY_SASL_MECHANISM_FACEBOOK,
                                EMPATHY_SASL_MECHANISM_WLM,
                                EMPATHY_SASL_MECHANISM_GOOGLE }
        /\ r.allocs = 1 =>
             empathy_sasl_channel_select_mechanism(r.ctx.channel)
               = r.channel.mech
        /\ SessionProcessSucceeded(r) => Len(AuthEntries(r)) = 1

C11_Witness ==
  \E f \in FlowIds :
    /\ SessionProcessSucceeded(flows[f])
    /\ flows[f].pc = "AwaitingMechanismResult"
    /\ flows[f].channel.mech = EMPATHY_SASL_MECHANISM_WLM

\* C12: once a flow's AuthContext is released no continuation holding it is
\* pending and no step reads or writes it: the flow's record changes no more,
\* except that the detached session processing, which was issued with no
\* continuation and no user data, completes.
C12_NoContinuationAfterRelease ==
  /\ [](\A f \in FlowIds :
          LET r == flows[f] IN
            r.ctxState = "freed" =>
              /\ ~Suspended(r)
              /\ r.retry # "none" =>
                   /\ Count(r, "process") = 2
                   /\ Entries(r, "process")[2].cb = NULL)
  /\ [][\A f \in FlowIds :
          flows[f].ctxState = "freed" =>
            flows'[f] = [flows[f] EXCEPT !.retry = flows'[f].retry]]_vars

C12_Witness ==
  \E f \in FlowIds :
    /\ flows[f].ctxState = "freed"
    /\ flows[f].retry = "done"
    /\ flows[f].frees = 1

\* The completion a suspended flow waits for.
PendingCompletion(r) ==
  CASE r.pc = "QueryingIdentity" -> "identity_query_info_cb:done"
    [] r.pc = "ProcessingSession" -> "session_process_cb:done"
    [] r.pc = "AwaitingMechanismResult" -> "auth_cb:done"
    [] OTHER -> NULL

\* C13: if every asynchronous call that has a continuation completes, every
\* flow begun by start ends with the channel closed and the context released;
\* and nothing but the completion of its pending call moves a suspended flow
\* (there is no timeout and no cancellation), so that until then the channel
\* stays open.
C13_EndsIfCallsComplete ==
  /\ \A f \in FlowIds :
       Begun(flows[f]) ~>
         /\ Terminal(flows[f])
         /\ Count(flows[f], "close") = 1
         /\ flows[f].allocs = 1 => ContextReleased(flows[f])
  /\ [][\A f \in FlowIds :
          LET r == flows[f]
              q == flows'[f]
          IN  Suspended(r) =>
                /\ Count(r, "close") = 0
                /\ q # r =>
                     /\ Len(q.calls) > Len(r.calls)
                     /\ q.calls[Len(r.calls) + 1].op = PendingCompletion(r)]_vars

C13_Witness ==
  \E f, g \in FlowIds :
    /\ MechanismAuthSucceeded(flows[f])
    /\ Terminal(flows[f]) /\ ContextReleased(flows[f])
    /\ Suspended(flows[g]) /\ Count(flows[g], "close") = 0

\* What the caller of start can observe of a flow: start returns nothing and
\* takes no result callback, so it is the operations issued on the caller's
\* channel object that the caller is told about, the closes.
CallerView(r) ==
  [c \in DOMAIN Entries(r, "close") |-> Entries(r, "close")[c].op]

\* C14: no branch reports an error to the caller of start: any two flows that
\* have ended, whichever step failed in either or whether mechanism auth
\* succeeded, show the caller the same thing, one closure of the channel.
C14_OutcomesIndistinguishable ==
  \A f, g \in FlowIds :
    (Terminal(flows[f]) /\ Terminal(flows[g])) =>
      /\ CallerView(flows[f]) = CallerView(flows[g])
      /\ CallerView(flows[f]) = <<"close">>

C14_Witness ==
  \E f, g \in FlowIds :
    /\ MechanismAuthSucceeded(flows[f]) /\ Terminal(flows[f])
    /\ IdentityQueryFailed(flows[g]) /\ Terminal(flows[g])
    /\ CallerView(flows[f]) = CallerView(flows[g])

\* The flows that hold a live AuthContext for channel c, and those that are
\* suspended on it, in the flow table fl.
LiveContexts(fl, c) ==
  { f \in FlowIds : fl[f].ctxState = "live" /\ fl[f].channel = c }

InProgress(fl, c) ==
  { f \in FlowIds : Suspended(fl[f]) /\ fl[f].channel = c }

\* C15 as stated: at most one AuthContext is live per channel at any time,
\* whatever the sequence of start calls and completions.
C15_AtMostOneLiveContextPerChannel ==
  \A c \in Channels : Cardinality(LiveContexts(flows, c)) <= 1

\* C15, amended: the live contexts of a channel are those of its flows in
\* progress, one each; and a step leaves at most one live context per channel
\* unless it is a start on a channel that has a flow in progress, which start
\* does not refuse.
C15_OneLiveContextUnlessRestarted ==
  /\ [](\A c \in Channels : LiveContexts(flows, c) = InProgress(flows, c))
  /\ [](\A f \in FlowIds : flows[f].allocs - flows[f].frees \in {0, 1})
  /\ [][ ( /\ \A c \in Channels : Cardinality(LiveContexts(flows, c)) <= 1
           /\ ~ \E c \in Channels :
                  /\ InProgress(flows, c) # {}
                  /\ nextFlow' = nextFlow + 1
                  /\ flows'[nextFlow'].channel = c )
         => \A c \in Channels : Cardinality(LiveContexts(flows', c)) <= 1 ]_vars

C15_Witness ==
  \E f, g \in FlowIds :
    /\ f < g
    /\ flows[f].channel = flows[g].channel
    /\ flows[f].ctxState = "freed"
    /\ flows[g].ctxState = "live"
    /\ Cardinality(LiveContexts(flows, flows[g].channel)) = 1

\* The kind of an entry of the history: the three auth calls are one kind.
OpClass(c) == IF c.op \in AuthOps THEN "auth" ELSE c.op

\* The order of the external calls of a flow.
FlowOrder ==
  << "getAccount", "identityNew", "createSession", "queryInfo", "process",
     "auth" >>

Positions(r, class) ==
  { i \in 1..Len(r.calls) : OpClass(r.calls[i]) = class }

FirstPos(r, class) ==
  CHOOSE i \in Positions(r, class) : \A j \in Positions(r, class) : i <= j

\* C16: the external calls of a flow come in the order account resolution,
\* session creation, identity query, session processing, mechanism auth.
\* Session processing is issued right after the identity query completed
\* without error, with the username recorded in the context; mechanism auth
\* right after session processing completed without error; the second
\* session processing right after mechanism auth completed with failure.
C16_CallOrder ==
  \A f \in FlowIds :
    LET r == flows[f] IN
      /\ \A a, b \in 1..Len(FlowOrder) :
           (a < b /\ Positions(r, FlowOrder[b]) # {}) =>
             /\ Positions(r, FlowOrder[a]) # {}
             /\ FirstPos(r, FlowOrder[a]) < FirstPos(r, FlowOrder[b])
      /\ \A i \in 1..Len(r.calls) :
           LET c == r.calls[i] IN
             /\ (c.op = "process" /\ c.cb # NULL) =>
                  /\ c.cb = "session_process_cb"
                  /\ i = FirstPos(r, "process")
                  /\ r.calls[i - 1].op = "identity_query_info_cb:done"
                  /\ ~r.calls[i - 1].args[1]
                  /\ r.ctxState = "live" =>
                       r.ctx.username = r.calls[i - 1].args[2]
             /\ c.op \in AuthOps =>
                  /\ r.calls[i - 1].op = "session_process_cb:done"
                  /\ ~r.calls[i - 1].args[1]
             /\ (c.op = "process" /\ c.cb = NULL) =>
                  /\ r.calls[i - 1].op = "auth_cb:done"
                  /\ ~r.calls[i - 1].args[1]
                  /\ i > FirstPos(r, "auth")

C16_Witness ==
  \E f, g \in FlowIds :
    /\ flows[f].pc = "ProcessingSession"
    /\ flows[f].ctx.username = "bob"
    /\ flows[g].retry = "pending"
    /\ Count(flows[g], "process") = 2

\* The session-processing calls issued with no continuation.
DetachedProcessCalls(r) ==
  SelectSeq(r.calls, LAMBDA c : c.op = "process" /\ c.cb = NULL)

\* C17: a flow retries once: it issues at most two session-processing calls
\* and at most one mechanism-auth call, the second session processing exactly
\* when mechanism auth failed, and once that call is issued, whatever its
\* outcome, the flow issues nothing more.
C17_RetryOnce ==
  /\ [](\A f \in FlowIds :
          LET r == flows[f] IN
            /\ Count(r, "process") <= 2
            /\ Len(AuthEntries(r)) <= 1
            /\ Len(DetachedProcessCalls(r)) =
                 (IF MechanismAuthFailed(r) THEN 1 ELSE 0)
            /\ (r.retry # "none") <=> MechanismAuthFailed(r))
  /\ [][\A f \in FlowIds :
          flows[f].retry # "none" =>
            /\ flows'[f].calls = flows[f].calls
            /\ flows'[f].pc = "Retrying"]_vars

C17_Witness ==
  \E f \in FlowIds :
    /\ flows[f].retry = "done"
    /\ Count(flows[f], "process") = 2
    /\ Len(AuthEntries(flows[f])) = 1

\* Nothing was done for the flow: no call issued, no handle created or
\* referenced, no context allocated.
NoEffect(r) ==
  /\ r.calls = << >>
  /\ r.created \subseteq {"channel"}
  /\ \A h \in Handles : r.acq[h] = 0 /\ r.rel[h] = 0
  /\ r.bad = {}
  /\ r.allocs = 0 /\ r.ctxState = "none"
  /\ r.retry = "none"

\* C18: a start call for a channel and account that supports refuses (another
\* storage provider, or a mechanism other than FACEBOOK, WLM, GOOGLE) is
\* rejected by start and does nothing: the channel is not closed, the manager
\* is not asked, no identity, session or AuthContext is created, no
\* asynchronous call is issued, and the other flows are left alone.
C18_RejectedStartHasNoEffect ==
  /\ [](\A f \in FlowIds : flows[f].pc = "Rejected" => NoEffect(flows[f]))
  /\ [][\A c \in Channels, a \in TpAccounts, ok \in BOOLEAN :
          ( /\ Start(c, a, ok)
            /\ \/ a.provider # EMPATHY_UOA_PROVIDER
               \/ c.mech \notin { EMPATHY_SASL_MECHANISM_FACEBOOK,
                                  EMPATHY_SASL_MECHANISM_WLM,
                                  EMPATHY_SASL_MECHANISM_GOOGLE } )
          => /\ flows'[nextFlow'].pc = "Rejected"
             /\ NoEffect(flows'[nextFlow'])
             /\ \A g \in FlowIds \ {nextFlow'} : flows'[g] = flows[g]]_vars

C18_Witness ==
  \E f, g \in FlowIds :
    /\ flows[f].pc = "Rejected"
    /\ flows[f].channel.mech = EMPATHY_SASL_MECHANISM_UNSUPPORTED
    /\ flows[g].pc = "Rejected"
    /\ flows[g].channel.mech = EMPATHY_SASL_MECHANISM_FACEBOOK
    /\ NoEffect(flows[f]) /\ NoEffect(flows[g])

\* C19: on every path through start a release is applied only to a handle
\* that was acquired on that path and is not yet released: the account is not
\* released when the manager returned none, the session is not released when
\* none was created, and when start hands the flow to the identity query it
\* has released its own reference to auth-data, service, identity and session
\* once each while the context keeps its own.
C19_ReleasesOnlyAcquiredHandles ==
  \A f \in FlowIds :
    LET r == flows[f] IN
      /\ r.bad = {}
      /\ AccountNotFound(r) => r.rel["account"] = 0
      /\ SessionCreationFailed(r) => r.rel["session"] = 0
      /\ r.pc = "QueryingIdentity" =>
           /\ \A h \in {"auth_data", "identity", "session"} :
                r.acq[h] = 2 /\ r.rel[h] = 1
           /\ r.acq["service"] = 1 /\ r.rel["service"] = 1
           /\ r.acq["account"] = 1 /\ r.rel["account"] = 1
           /\ r.acq["channel"] = 1 /\ r.rel["channel"] = 0

====
